---- MODULE Spec2Model ----
(***************************************************************************)
(* Pump Power Calculator (src/app.py).                                     *)
(*                                                                         *)
(* The script is a Streamlit page: every change of a sidebar widget runs   *)
(* the whole script again, which reads the widgets, converts the inputs to *)
(* SI units, computes hydraulic and shaft power and renders them.          *)
(*                                                                         *)
(* All numbers of the script are Python floats, that is IEEE-754 binary64  *)
(* values combined with round-to-nearest-even.  They are modelled as such: *)
(* a float is a record [k, s, m, e] with k in {"fin", "inf", "nan"}, sign  *)
(* s, and magnitude m * 2^e, where the mantissa m is a natural number kept *)
(* as a little-endian sequence of limbs in base 2^15 (the model checker's  *)
(* integers are 32 bits wide, a mantissa is 53).                           *)
(***************************************************************************)
EXTENDS Integers, Sequences, FiniteSets, TLC

\* ------------------------------------------------------------------------
\* Natural numbers of any size: little-endian limbs, no leading zero limb.
\* The arithmetic is written as functions: applying a function evaluates
\* its arguments once, before the body.
\* ------------------------------------------------------------------------
Base == 2^15

Big == Seq(Nat)

QR == [q : Big, r : Big]

RestOf(a) == IF a = <<>> THEN <<>> ELSE Tail(a)

LimbOf(a) == IF a = <<>> THEN 0 ELSE Head(a)

BTrim[a \in Big] ==
    IF a = <<>> THEN <<>>
    ELSE IF a[Len(a)] = 0 THEN BTrim[SubSeq(a, 1, Len(a) - 1)]
    ELSE a

BOfInt[n \in Nat] ==
    IF n = 0 THEN <<>>
    ELSE IF n < Base THEN <<n>>
    ELSE IF n < Base * Base THEN <<n % Base, n \div Base>>
    ELSE <<n % Base, (n \div Base) % Base, n \div (Base * Base)>>

BToInt[a \in Big] == IF a = <<>> THEN 0 ELSE Head(a) + Base * BToInt[Tail(a)]

BAddC[a \in Big, b \in Big, c \in Nat] ==
    IF a = <<>> /\ b = <<>> THEN (IF c = 0 THEN <<>> ELSE <<c>>)
    ELSE LET x == LimbOf(a) + LimbOf(b) + c
         IN  <<x % Base>> \o BAddC[RestOf(a), RestOf(b), x \div Base]

BAdd[a \in Big, b \in Big] == BAddC[a, b, 0]

\* a - b for a >= b.
BSubC[a \in Big, b \in Big, c \in Nat] ==
    IF a = <<>> THEN <<>>
    ELSE LET x == Head(a) - LimbOf(b) - c
         IN  IF x < 0 THEN <<x + Base>> \o BSubC[Tail(a), RestOf(b), 1]
             ELSE <<x>> \o BSubC[Tail(a), RestOf(b), 0]

BSub[a \in Big, b \in Big] == BTrim[BSubC[a, b, 0]]

\* -1, 0, 1 as a < b, a = b, a > b.
BCmpFrom[a \in Big, b \in Big, i \in Nat] ==
    IF i = 0 THEN 0
    ELSE IF a[i] < b[i] THEN -1
    ELSE IF a[i] > b[i] THEN 1
    ELSE BCmpFrom[a, b, i - 1]

BCmp[a \in Big, b \in Big] ==
    IF Len(a) < Len(b) THEN -1
    ELSE IF Len(a) > Len(b) THEN 1
    ELSE BCmpFrom[a, b, Len(a)]

\* a * d + c for one limb d and a carry c.
BMulLimbC[a \in Big, d \in Nat, c \in Nat] ==
    IF a = <<>> THEN (IF c = 0 THEN <<>> ELSE <<c>>)
    ELSE LET x == Head(a) * d + c
         IN  <<x % Base>> \o BMulLimbC[Tail(a), d, x \div Base]

BMulLimb[a \in Big, d \in Nat] == IF d = 0 THEN <<>> ELSE BMulLimbC[a, d, 0]

\* a * Base^n.
BShiftLimbs[a \in Big, n \in Nat] ==
    IF a = <<>> THEN <<>> ELSE [i \in 1..n |-> 0] \o a

BMul[a \in Big, b \in Big] ==
    IF a = <<>> \/ b = <<>> THEN <<>>
    ELSE BAdd[BMulLimb[a, Head(b)], BShiftLimbs[BMul[a, Tail(b)], 1]]

TrimQ[res \in QR] == [q |-> BTrim[res.q], r |-> res.r]

\* Quotient and remainder of a by one limb d > 0, from the top limb down;
\* st holds the quotient limbs found so far and the running remainder.
DivLimbState == [q : Big, r : Nat]

DivLimbStep[st \in DivLimbState, limb \in Nat, d \in Nat] ==
    [q |-> <<(st.r * Base + limb) \div d>> \o st.q,
     r |-> (st.r * Base + limb) % d]

BDivLimbFrom[a \in Big, d \in Nat, i \in Nat, st \in DivLimbState] ==
    IF i = 0 THEN st ELSE BDivLimbFrom[a, d, i - 1, DivLimbStep[st, a[i], d]]

BDivLimbQ[a \in Big, d \in Nat] ==
    BTrim[BDivLimbFrom[a, d, Len(a), [q |-> <<>>, r |-> 0]].q]

LimbBits[x \in Nat] == IF x = 0 THEN 0 ELSE 1 + LimbBits[x \div 2]

BitLen[a \in Big] ==
    IF a = <<>> THEN 0 ELSE 15 * (Len(a) - 1) + LimbBits[a[Len(a)]]

\* a * 2^k.
BShl[a \in Big, k \in Nat] == BShiftLimbs[BMulLimb[a, 2^(k % 15)], k \div 15]

\* floor(a / 2^k).
BShr[a \in Big, k \in Nat] ==
    IF k \div 15 >= Len(a) THEN <<>>
    ELSE BDivLimbQ[SubSeq(a, (k \div 15) + 1, Len(a)), 2^(k % 15)]

BIsOdd(a) == a # <<>> /\ Head(a) % 2 = 1

\* Quotient and remainder of n by d # 0 (schoolbook long division in base
\* 2^15: each quotient limb is estimated from the top limbs of the running
\* remainder and of the divisor, whose top limb is first brought to at
\* least Base/2, and then corrected downwards).
BFixDigit[r \in Big, d \in Big, q \in Nat] ==
    IF BCmp[BMulLimb[d, q], r] > 0 THEN BFixDigit[r, d, q - 1] ELSE q

BEstimate[r \in Big, d \in Big] ==
    LET n == Len(d)
    IN  IF Len(r) < n THEN 0
        ELSE IF Len(r) = n THEN r[n] \div d[n]
        ELSE LET t == (r[n + 1] * Base + r[n]) \div d[n]
             IN  IF t > Base - 1 THEN Base - 1 ELSE t

LongDivDigit[qs \in Big, cur \in Big, d \in Big, q \in Nat] ==
    [q |-> <<q>> \o qs, r |-> BSub[cur, BMulLimb[d, q]]]

LongDivCur[qs \in Big, cur \in Big, d \in Big] ==
    LongDivDigit[qs, cur, d, BFixDigit[cur, d, BEstimate[cur, d]]]

LongDivStep[st \in QR, limb \in Nat, d \in Big] ==
    LongDivCur[st.q, BTrim[<<limb>> \o st.r], d]

BLongDiv[n \in Big, d \in Big, i \in Nat, st \in QR] ==
    IF i = 0 THEN st ELSE BLongDiv[n, d, i - 1, LongDivStep[st, n[i], d]]

BLongDivAll[n \in Big, d \in Big] ==
    TrimQ[BLongDiv[n, d, Len(n), [q |-> <<>>, r |-> <<>>]]]

\* The remainder is that of n * 2^sh by d * 2^sh: zero exactly when that
\* of n by d is.
BDivMod[n \in Big, d \in Big] ==
    BLongDivAll[BShl[n, 15 - LimbBits[d[Len(d)]]],
                BShl[d, 15 - LimbBits[d[Len(d)]]]]

\* ------------------------------------------------------------------------
\* Python floats (IEEE-754 binary64, round to nearest, ties to even).
\* A finite float is m * 2^e with m < 2^53; a normal one has a mantissa of
\* exactly 53 bits, a subnormal one has e = -1074.  The two zeros are one
\* value here (they compare equal in Python and the script never divides
\* by one: see ZeroDivisionError).
\* ------------------------------------------------------------------------
Float == [k : {"fin", "inf", "nan", "ZeroDivisionError"}, s : {0, 1}, m : Big, e : Int]

Zero == [k |-> "fin", s |-> 0, m |-> <<>>, e |-> 0]

Inf(s) == [k |-> "inf", s |-> s, m |-> <<>>, e |-> 0]

NaN == [k |-> "nan", s |-> 0, m |-> <<>>, e |-> 0]

\* What `/` raises instead of returning when the divisor is 0.
ZeroDivisionError == [k |-> "ZeroDivisionError", s |-> 0, m |-> <<>>, e |-> 0]

IsFinite(x) == x.k = "fin"

IsZero(x) == x.k = "fin" /\ x.m = <<>>

IsNaN(x) == x.k = "nan"

\* s, m, e with m <= 2^53 as a float: 2^53 is renormalised, a magnitude of
\* 2^1024 or more is an overflow to infinity.
FPack[s \in {0, 1}, m \in Big, e \in Int] ==
    IF m = <<>> THEN Zero
    ELSE LET mm == IF BitLen[m] = 54 THEN BShr[m, 1] ELSE m
             ee == IF BitLen[m] = 54 THEN e + 1 ELSE e
         IN  IF ee + BitLen[mm] > 1024 THEN Inf(s)
             ELSE [k |-> "fin", s |-> s, m |-> mm, e |-> ee]

\* m = q * 2^k + rest: q, or q + 1 when rest (with a sticky fraction below
\* it) is more than half of 2^k, or is half and q is odd.
RoundUp[s \in {0, 1}, q \in Big, e \in Int, c \in Int, sticky \in BOOLEAN] ==
    FPack[s, IF c > 0 \/ (c = 0 /\ (sticky \/ BIsOdd(q))) THEN BAdd[q, <<1>>] ELSE q, e]

RoundShift[s \in {0, 1}, m \in Big, k \in Nat, q \in Big, e \in Int, sticky \in BOOLEAN] ==
    RoundUp[s, q, e, BCmp[BSub[m, BShl[q, k]], BShl[<<1>>, k - 1]], sticky]

\* The float nearest to (-1)^s * (m + f) * 2^e, where 0 <= f < 1 and
\* sticky says whether f > 0 (then m has at least 55 bits, so f never
\* decides more than a tie).
FRound[s \in {0, 1}, m \in Big, e \in Int, sticky \in BOOLEAN] ==
    LET e2 == IF e + BitLen[m] - 53 > -1074 THEN e + BitLen[m] - 53 ELSE -1074
    IN  IF m = <<>> THEN Zero
        ELSE IF e2 <= e THEN FPack[s, BShl[m, e - e2], e2]
        ELSE RoundShift[s, m, e2 - e, BShr[m, e2 - e], e2, sticky]

FRoundQR[s \in {0, 1}, qr \in QR, e \in Int] == FRound[s, qr.q, e, qr.r # <<>>]

\* The float nearest to (-1)^s * (n / d) * 2^e, for naturals n, d # 0: the
\* quotient is taken to at least 55 bits.
FQuot[s \in {0, 1}, n \in Big, d \in Big, e \in Int] ==
    LET need == 55 + BitLen[d] - BitLen[n]
        sh == IF need > 0 THEN need ELSE 0
    IN  IF n = <<>> THEN Zero
        ELSE FRoundQR[s, BDivMod[BShl[n, sh], d], e - sh]

Xor(a, b) == (a + b) % 2

\* x * y.
FMul[x \in Float, y \in Float] ==
    IF x.k = "nan" \/ y.k = "nan" THEN NaN
    ELSE IF x.k = "inf" \/ y.k = "inf"
         THEN (IF IsZero(x) \/ IsZero(y) THEN NaN ELSE Inf(Xor(x.s, y.s)))
    ELSE FRound[Xor(x.s, y.s), BMul[x.m, y.m], x.e + y.e, FALSE]

\* x / y.
FDiv[x \in Float, y \in Float] ==
    IF IsZero(y) THEN ZeroDivisionError
    ELSE IF x.k = "nan" \/ y.k = "nan" THEN NaN
    ELSE IF x.k = "inf" THEN (IF y.k = "inf" THEN NaN ELSE Inf(Xor(x.s, y.s)))
    ELSE IF y.k = "inf" THEN Zero
    ELSE FQuot[Xor(x.s, y.s), x.m, y.m, x.e - y.e]

\* -1, 0, 1 as |x| < |y|, |x| = |y|, |x| > |y|, for x, y not NaN.
MagCmp[x \in Float, y \in Float] ==
    IF x.k = "inf" \/ y.k = "inf"
    THEN (IF x.k = y.k THEN 0 ELSE IF x.k = "inf" THEN 1 ELSE -1)
    ELSE IF x.m = <<>> \/ y.m = <<>>
    THEN (IF x.m = y.m THEN 0 ELSE IF x.m = <<>> THEN -1 ELSE 1)
    ELSE LET tx == x.e + BitLen[x.m]
             ty == y.e + BitLen[y.m]
         IN  IF tx < ty THEN -1
             ELSE IF tx > ty THEN 1
             ELSE IF x.e >= y.e THEN BCmp[BShl[x.m, x.e - y.e], y.m]
             ELSE BCmp[x.m, BShl[y.m, y.e - x.e]]

\* x < y (False when either is NaN).
FLt[x \in Float, y \in Float] ==
    IF x.k = "nan" \/ y.k = "nan" THEN FALSE
    ELSE IF IsZero(x) /\ IsZero(y) THEN FALSE
    ELSE IF IsZero(x) THEN y.s = 0
    ELSE IF IsZero(y) THEN x.s = 1
    ELSE IF x.s # y.s THEN x.s = 1
    ELSE IF x.s = 0 THEN MagCmp[x, y] < 0
    ELSE MagCmp[x, y] > 0

\* x == y and x <= y (False when either is NaN).
FEq[x \in Float, y \in Float] ==
    x.k # "nan" /\ y.k # "nan" /\ ~FLt[x, y] /\ ~FLt[y, x]

FLe[x \in Float, y \in Float] == FLt[x, y] \/ FEq[x, y]

\* Python's max(a, b) and min(a, b): the first argument unless the second
\* is strictly greater (smaller).
FMax[a \in Float, b \in Float] == IF FLt[a, b] THEN b ELSE a

FMin[a \in Float, b \in Float] == IF FLt[b, a] THEN b ELSE a

\* Decimal literals: the float nearest to ds * 10^x, ds a sequence of
\* decimal digits, as Python reads 0.999999 or 1e-6.
BOfDigitsFrom[ds \in Seq(0..9), i \in Nat, acc \in Big] ==
    IF i > Len(ds) THEN acc
    ELSE BOfDigitsFrom[ds, i + 1, BAdd[BMulLimb[acc, 10], BOfInt[ds[i]]]]

BOfDigits[ds \in Seq(0..9)] == BOfDigitsFrom[ds, 1, <<>>]

BSquare[a \in Big] == BMul[a, a]

Pow10[n \in Nat] ==
    IF n = 0 THEN <<1>>
    ELSE IF n % 2 = 1 THEN BMulLimb[Pow10[n - 1], 10]
    ELSE BSquare[Pow10[n \div 2]]

FDec[ds \in Seq(0..9), x \in Int] ==
    IF x >= 0 THEN FRound[0, BMul[BOfDigits[ds], Pow10[x]], 0, FALSE]
    ELSE FQuot[0, BOfDigits[ds], Pow10[-x], 0]

FNeg[x \in Float] ==
    IF IsZero(x) \/ x.k = "nan" THEN x ELSE [x EXCEPT !.s = 1 - x.s]

\* The float Python reads from the literal n e x (n * 10^x), n an integer.
FOfInt[n \in Int, x \in Int] ==
    IF n < 0 THEN FNeg[FOfInt[-n, x]]
    ELSE IF x >= 0 THEN FRound[0, BMul[BOfInt[n], Pow10[x]], 0, FALSE]
    ELSE FQuot[0, BOfInt[n], Pow10[-x], 0]

\* The neighbours of a positive float: the next float towards 0 and the
\* next one away from it (math.nextafter).
FPred[x \in Float] ==
    IF x.e > -1074 /\ BitLen[x.m] = 53 /\ BitLen[BSub[x.m, <<1>>]] = 52
    THEN [x EXCEPT !.m = BSub[BShl[x.m, 1], <<1>>], !.e = x.e - 1]
    ELSE FPack[x.s, BSub[x.m, <<1>>], x.e]

FSucc[x \in Float] == FPack[x.s, BAdd[x.m, <<1>>], x.e]

\* x moved by j floats (j < 0: towards 0).
FStep[x \in Float, j \in Int] ==
    IF j = 0 THEN x
    ELSE IF j < 0 THEN FStep[FPred[x], j + 1]
    ELSE FStep[FSucc[x], j - 1]

\* f"{x:.{d}f}": the nearest multiple of 10^-d to the float's exact value,
\* ties to even, as the integer n of n * 10^-d; "inf" and "nan" print as
\* such.
FixedUp[s \in {0, 1}, q \in Big, c \in Int] ==
    [k |-> "fin", s |-> s,
     n |-> IF c > 0 \/ (c = 0 /\ BIsOdd(q)) THEN BAdd[q, <<1>>] ELSE q]

FixedShift[s \in {0, 1}, p \in Big, k \in Nat, q \in Big] ==
    FixedUp[s, q, BCmp[BSub[p, BShl[q, k]], BShl[<<1>>, k - 1]]]

FixedOf[s \in {0, 1}, p \in Big, e \in Int] ==
    IF e >= 0 THEN [k |-> "fin", s |-> s, n |-> BShl[p, e]]
    ELSE FixedShift[s, p, -e, BShr[p, -e]]

FFixed[x \in Float, d \in Nat] ==
    IF x.k # "fin" THEN [k |-> x.k, s |-> x.s, n |-> <<>>]
    ELSE FixedOf[x.s, BMul[x.m, Pow10[d]], x.e]

\* ------------------------------------------------------------------------
\* Helpers (src/app.py, lines 9-51).  The unit names are the keys of the
\* script's tables, with the superscript 3 written as a plain 3.
\* ------------------------------------------------------------------------
Lit_60 == FDec[<<6, 0>>, 0]

Lit_1000 == FDec[<<1, 0, 0, 0>>, 0]

Lit_1 == FDec[<<1>>, 0]

Lit_1e_3 == FDec[<<1>>, -3]

Lit_1e_6 == FDec[<<1>>, -6]

Lit_0_999999 == FDec[<<9, 9, 9, 9, 9, 9>>, -6]

G_SI == FDec[<<9, 8, 0, 6, 6, 5>>, -5]

RHO_WATER_4C == FDec[<<1, 0, 0, 0>>, 0]

FLOW_UNITS ==
    [u \in {"m3/s", "L/s", "L/min", "m3/h", "gpm (US)", "ft3/s"} |->
        CASE u = "m3/s" -> Lit_1
          [] u = "L/s" -> Lit_1e_3
          [] u = "L/min" -> FDiv[Lit_1e_3, Lit_60]
          [] u = "m3/h" -> FDiv[Lit_1, FDec[<<3, 6, 0, 0>>, 0]]
          [] u = "gpm (US)" -> FDiv[FDec[<<3, 7, 8, 5, 4, 1, 1, 7, 8, 4>>, -12], Lit_60]
          [] u = "ft3/s" -> FDec[<<2, 8, 3, 1, 6, 8, 4, 6, 5, 9, 2>>, -12]]

HEAD_UNITS ==
    [u \in {"m", "ft"} |->
        CASE u = "m" -> Lit_1
          [] u = "ft" -> FDec[<<3, 0, 4, 8>>, -4]]

EFF_UNITS ==
    [u \in {"%", "fraction"} |->
        CASE u = "%" -> FDec[<<1>>, -2]
          [] u = "fraction" -> Lit_1]

KW_TO_HP == FDec[<<1, 3, 4, 1, 0, 2, 2, 0, 9>>, -8]

\* to_si_flow refusing negative values, which the script's does not.
to_si_flow_validating(value, unit) == FMul[FMax[Zero, value], FLOW_UNITS[unit]]

to_si_flow(value, unit) == FMul[value, FLOW_UNITS[unit]]

to_si_head(value, unit) == FMul[value, HEAD_UNITS[unit]]

\* to_fraction without its min(0.999999, ...).
to_fraction_no_ceiling(value, unit) ==
    FMax[Lit_1e_6, FMul[value, EFF_UNITS[unit]]]

\* to_fraction without its max(1e-6, ...).
to_fraction_no_floor(value, unit) ==
    FMin[Lit_0_999999, FMul[value, EFF_UNITS[unit]]]

to_fraction(value, unit) ==
    FMax[Lit_1e_6, FMin[Lit_0_999999, FMul[value, EFF_UNITS[unit]]]]

\* sg_to_density without its max(1e-6, ...).
sg_to_density_no_floor(sg) == FMul[sg, RHO_WATER_4C]

\* sg_to_density with its floor at 0 instead of 1e-6.
sg_to_density_floor_0(sg) == FMul[FMax[Zero, sg], RHO_WATER_4C]

sg_to_density(sg) == FMul[FMax[Lit_1e_6, sg], RHO_WATER_4C]

\* hydraulic_power_kw in W: without the division by 1000.
hydraulic_power_w(rho, g, Q, H) == FMul[FMul[FMul[rho, g], Q], H]

hydraulic_power_kw(rho, g, Q, H) ==
    FDiv[FMul[FMul[FMul[rho, g], Q], H], Lit_1000]

\* shaft_power_kw multiplying by the efficiency instead of dividing.
shaft_power_kw_times(P_h_kw, eff_frac) == FMul[P_h_kw, eff_frac]

shaft_power_kw(P_h_kw, eff_frac) == FDiv[P_h_kw, eff_frac]

\* kw_to_hp with the metric-horsepower factor.
kw_to_hp_metric(kw) == FMul[kw, FDec[<<1, 3, 5, 9, 6, 2>>, -5]]

kw_to_hp(kw) == FMul[kw, KW_TO_HP]


\* ------------------------------------------------------------------------
\* The page (src/app.py, lines 59-111).
\*   widgets  the sidebar's widget values, kept by Streamlit between runs
\*   script   the variables of the last run of the script and the four
\*            metrics it rendered
\*   edits    how many widget changes the session has seen (model bound)
\*   call     the last direct call of a helper: its name, arguments and
\*            return value (used by SpecFn only)
\* ------------------------------------------------------------------------
VARIABLES widgets, script, edits, call

vars == <<widgets, script, edits, call>>

\* The longest session explored.
MaxEdits == 2

\* Values typed into the number inputs; min_value=0.0 rejects anything
\* below 0.
FlowTyped == {Zero, FDec[<<5>>, -2], FDec[<<1, 0, 0>>, 0]}

HeadTyped == {Zero, FDec[<<2, 0>>, 0], FDec[<<6, 5, 6, 1, 6, 8>>, -4]}

SgTyped == {Zero, Lit_1, FDec[<<8, 5>>, -2]}

DensityTyped == {Zero, Lit_1000, FDec[<<8, 5, 0>>, 0]}

EffTyped == {Zero, FDec[<<7, 0>>, 0], FDec[<<1, 5, 0>>, 0], FDec[<<7>>, -1]}

GravityTyped == {Zero, G_SI, FDec[<<9, 8, 1>>, -2]}

\* The widgets' values on the first run (the value= and index= arguments).
DefaultWidgets ==
    [Q_val |-> FDec[<<5>>, -2], Q_unit |-> "m3/s",
     H_val |-> FDec[<<2, 0>>, 0], H_unit |-> "m",
     sg |-> Lit_1, rho_override |-> FALSE, rho_custom |-> Lit_1000,
     eff_val |-> FDec[<<7, 0>>, 0], eff_unit |-> "%",
     g_val |-> G_SI, show_steps |-> TRUE]

\* Line 95 always taking the density from the specific gravity.
SelectRho_sg_only(w) == sg_to_density(w.sg)

\* Line 95 keeping the density of the previous run for as long as the
\* specific gravity stays the same.
SelectRho_cached(w) ==
    IF edits > 0 /\ w.sg = widgets.sg THEN script.rho
    ELSE IF w.rho_override THEN w.rho_custom ELSE sg_to_density(w.sg)

\* Line 95: the density the calculation uses.
SelectRho(w) == IF w.rho_override THEN w.rho_custom ELSE sg_to_density(w.sg)

\* One run of the script over the widget values w, statement by
\* statement, each stage taking the variables assigned so far.
\* Lines 107-111: the four st.metric values (3 decimals).
Output[Q_si, H_si, eta, rho, P_h_kw, P_shaft_kw, P_h_hp, P_shaft_hp \in Float] ==
    [Q_si |-> Q_si, H_si |-> H_si, eta |-> eta, rho |-> rho,
     P_h_kw |-> P_h_kw, P_shaft_kw |-> P_shaft_kw,
     P_h_hp |-> P_h_hp, P_shaft_hp |-> P_shaft_hp,
     metric_h_kw |-> FFixed[P_h_kw, 3],
     metric_h_hp |-> FFixed[P_h_hp, 3],
     metric_shaft_kw |-> FFixed[P_shaft_kw, 3],
     metric_shaft_hp |-> FFixed[P_shaft_hp, 3]]

\* Lines 100-101.
Horsepower[Q_si, H_si, eta, rho, P_h_kw, P_shaft_kw \in Float] ==
    Output[Q_si, H_si, eta, rho, P_h_kw, P_shaft_kw,
           kw_to_hp(P_h_kw), kw_to_hp(P_shaft_kw)]

\* Line 99.
ShaftPower[Q_si, H_si, eta, rho, P_h_kw \in Float] ==
    Horsepower[Q_si, H_si, eta, rho, P_h_kw, shaft_power_kw(P_h_kw, eta)]

\* Line 98.
Calculations[Q_si, H_si, eta, rho, g_val \in Float] ==
    ShaftPower[Q_si, H_si, eta, rho,
               hydraulic_power_kw(rho, g_val, Q_si, H_si)]

\* Lines 92-95, then the rest.
RunScript(w) ==
    Calculations[to_si_flow(w.Q_val, w.Q_unit),
                 to_si_head(w.H_val, w.H_unit),
                 to_fraction(w.eff_val, w.eff_unit),
                 SelectRho(w),
                 w.g_val]

NoCall == [fn |-> "none", args |-> <<>>, ret |-> Zero]

Init ==
    /\ edits = 0
    /\ widgets = DefaultWidgets
    /\ script = RunScript(DefaultWidgets)
    /\ call = NoCall

\* A widget changes and Streamlit runs the script again from the top.
Rerun(field, v) ==
    /\ widgets[field] # v
    /\ LET changed == [widgets EXCEPT ![field] = v]
       IN  /\ widgets' = changed
           /\ script' = RunScript(changed)
    /\ edits' = edits + 1
    /\ UNCHANGED call

SetFlowValue ==
    /\ edits < MaxEdits
    /\ \E v \in FlowTyped : Rerun("Q_val", v)

SetFlowUnit ==
    /\ edits < MaxEdits
    /\ \E u \in DOMAIN FLOW_UNITS : Rerun("Q_unit", u)

SetHeadValue ==
    /\ edits < MaxEdits
    /\ \E v \in HeadTyped : Rerun("H_val", v)

SetHeadUnit ==
    /\ edits < MaxEdits
    /\ \E u \in DOMAIN HEAD_UNITS : Rerun("H_unit", u)

SetSG ==
    /\ edits < MaxEdits
    /\ \E v \in SgTyped : Rerun("sg", v)

ToggleOverride ==
    /\ edits < MaxEdits
    /\ Rerun("rho_override", ~widgets.rho_override)

\* disabled=not rho_override: the field takes input only under override.
SetCustomDensity ==
    /\ edits < MaxEdits
    /\ widgets.rho_override
    /\ \E v \in DensityTyped : Rerun("rho_custom", v)

SetEffValue ==
    /\ edits < MaxEdits
    /\ \E v \in EffTyped : Rerun("eff_val", v)

SetEffUnit ==
    /\ edits < MaxEdits
    /\ \E u \in DOMAIN EFF_UNITS : Rerun("eff_unit", u)

SetGravity ==
    /\ edits < MaxEdits
    /\ \E v \in GravityTyped : Rerun("g_val", v)

ToggleShowSteps ==
    /\ edits < MaxEdits
    /\ Rerun("show_steps", ~widgets.show_steps)

Next ==
    \/ SetFlowValue
    \/ SetFlowUnit
    \/ SetHeadValue
    \/ SetHeadUnit
    \/ SetSG
    \/ ToggleOverride
    \/ SetCustomDensity
    \/ SetEffValue
    \/ SetEffUnit
    \/ SetGravity
    \/ ToggleShowSteps

Spec == Init /\ [][Next]_vars

\* ------------------------------------------------------------------------
\* Properties of the page.
\* ------------------------------------------------------------------------
Results(s) == <<s.P_h_kw, s.P_h_hp, s.P_shaft_kw, s.P_shaft_hp,
                s.metric_h_kw, s.metric_h_hp, s.metric_shaft_kw,
                s.metric_shaft_hp>>

Fixed(n) == [k |-> "fin", s |-> 0, n |-> BOfInt[n]]

\* C1 as stated: in every run the density passed to hydraulic_power_kw is
\* strictly greater than 0, override on or off.
C1_DensityPositive == FLt[Zero, script.rho]

\* C1 amended: the density passed to hydraulic_power_kw is never negative;
\* with the override off it is sg_to_density(sg) and at least 1e-3, with
\* the override on it is the custom density, 0 included.
C1_DensityFloor ==
    /\ FLe[Zero, script.rho]
    /\ widgets.rho_override => script.rho = widgets.rho_custom
    /\ ~widgets.rho_override =>
           /\ script.rho = FMul[FMax[Lit_1e_6, widgets.sg], Lit_1000]
           /\ FLe[Lit_1e_3, script.rho]

C1_ZeroCustomDensity ==
    /\ widgets.rho_override
    /\ widgets.rho_custom = Zero
    /\ script.rho = Zero

\* C2: with the override on, rho is the custom density and no change of
\* the specific gravity changes the four power results; with it off, rho
\* is sg_to_density(sg) and no change of the custom density changes them.
C2_OneFluidDescriptor ==
    /\ widgets.rho_override =>
           /\ script.rho = widgets.rho_custom
           /\ \A sg \in SgTyped :
                  Results(RunScript([widgets EXCEPT !.sg = sg]))
                      = Results(script)
    /\ ~widgets.rho_override =>
           /\ script.rho = sg_to_density(widgets.sg)
           /\ \A rho_custom \in DensityTyped :
                  Results(RunScript([widgets EXCEPT !.rho_custom = rho_custom]))
                      = Results(script)

C2_OverrideWithOtherSG ==
    /\ widgets.rho_override
    /\ widgets.sg # DefaultWidgets.sg
    /\ script.rho = widgets.rho_custom
    /\ script.rho # sg_to_density(widgets.sg)

\* C4: in every run rho, g, Q_si and H_si are non-negative numbers, eta is
\* strictly between 0 and 1, and line 48 does not divide by zero.
C4_WellFormedInputs ==
    /\ FLe[Zero, script.rho]
    /\ FLe[Zero, widgets.g_val]
    /\ FLe[Zero, script.Q_si]
    /\ FLe[Zero, script.H_si]
    /\ FLt[Zero, script.eta]
    /\ FLt[script.eta, Lit_1]
    /\ script.P_shaft_kw.k # "ZeroDivisionError"

C4_ZeroEfficiencyTyped ==
    /\ widgets.eff_val = Zero
    /\ script.eta = Lit_1e_6
    /\ script.P_shaft_kw.k = "fin"

DefaultInputs ==
    \A f \in DOMAIN DefaultWidgets \ {"rho_custom", "show_steps"} :
        widgets[f] = DefaultWidgets[f]

HpOfKw ==
    /\ script.P_h_hp = FMul[script.P_h_kw, FDec[<<1, 3, 4, 1, 0, 2, 2, 0, 9>>, -8]]
    /\ script.P_shaft_hp
           = FMul[script.P_shaft_kw, FDec[<<1, 3, 4, 1, 0, 2, 2, 0, 9>>, -8]]

\* C8 as stated: the default inputs give 9.80665 kW hydraulic, 14.0095 kW
\* shaft (4 decimals) and 13.148 HP hydraulic (3 decimals), every HP value
\* being the kW value times 1.34102209.
C8_DefaultScenarioAsStated ==
    /\ DefaultInputs =>
           /\ script.P_h_kw = FDec[<<9, 8, 0, 6, 6, 5>>, -5]
           /\ FFixed[script.P_shaft_kw, 4] = Fixed(140095)
           /\ FFixed[script.P_h_hp, 3] = Fixed(13148)
    /\ HpOfKw

\* C8 amended: the default inputs give 9.80665 kW hydraulic, 14.0095 kW
\* shaft (4 decimals) and 13.151 HP hydraulic (3 decimals), every HP value
\* being the kW value times 1.34102209.
C8_DefaultScenario ==
    /\ DefaultInputs =>
           /\ script.P_h_kw = FDec[<<9, 8, 0, 6, 6, 5>>, -5]
           /\ FFixed[script.P_shaft_kw, 4] = Fixed(140095)
           /\ FFixed[script.P_h_hp, 3] = Fixed(13151)
    /\ HpOfKw

C8_DefaultsShownAgain ==
    /\ DefaultInputs
    /\ edits > 0
    /\ script.metric_h_hp = Fixed(13151)

\* C10: after any sequence of widget changes every intermediate and every
\* result of the last run is the value the script's expressions give on
\* the widgets' current values alone, so equal inputs give equal outputs
\* whatever came before.
C10_FreshEvaluation ==
    /\ script.Q_si = to_si_flow(widgets.Q_val, widgets.Q_unit)
    /\ script.H_si = to_si_head(widgets.H_val, widgets.H_unit)
    /\ script.eta = to_fraction(widgets.eff_val, widgets.eff_unit)
    /\ script.rho = IF widgets.rho_override THEN widgets.rho_custom
                    ELSE sg_to_density(widgets.sg)
    /\ script.P_h_kw
           = hydraulic_power_kw(script.rho, widgets.g_val, script.Q_si,
                                script.H_si)
    /\ script.P_shaft_kw = shaft_power_kw(script.P_h_kw, script.eta)
    /\ script.P_h_hp = kw_to_hp(script.P_h_kw)
    /\ script.P_shaft_hp = kw_to_hp(script.P_shaft_kw)
    /\ script.metric_h_kw = FFixed[script.P_h_kw, 3]
    /\ script.metric_h_hp = FFixed[script.P_h_hp, 3]
    /\ script.metric_shaft_kw = FFixed[script.P_shaft_kw, 3]
    /\ script.metric_shaft_hp = FFixed[script.P_shaft_hp, 3]

C10_OverrideOnAndOff ==
    /\ edits = 2
    /\ widgets = DefaultWidgets

\* ------------------------------------------------------------------------
\* The helpers called directly (lines 31-51), on arguments the widgets'
\* min_value would not let through as well: the functions themselves
\* validate nothing.
\* ------------------------------------------------------------------------
\* Arguments are the decimals n * 10^x with |n| <= MaxMant and
\* |x| <= MaxScale, and the floats within MaxUlps of a threshold.
MaxMant == 5

MaxScale == 3

MaxUlps == 2

Huge == FDec[<<1>>, 200]

Grid == {FOfInt[n, x] : n \in -MaxMant..MaxMant, x \in -MaxScale..MaxScale}

Around(x) == {FStep[x, j] : j \in -MaxUlps..MaxUlps}

EffArgs ==
    Grid \cup Around(Lit_1e_6) \cup Around(Lit_0_999999)
         \cup Around(FDec[<<1>>, -4]) \cup Around(FDec[<<9, 9, 9, 9, 9, 9>>, -4])

SgArgs == Grid \cup Around(Lit_1e_6)

PowerArgs ==
    [rho : {Zero, Lit_1000, Huge}, g : {Zero, G_SI, Huge},
     Q : {Zero, FDec[<<5>>, -2], Huge}, H : {Zero, FDec[<<2, 0>>, 0], Huge}]

ShaftPowers == {Zero, Lit_1, G_SI, FOfInt[MaxMant, MaxScale], Huge}

ShaftEffs ==
    Around(Lit_1) \cup Around(Lit_0_999999) \cup Around(FDec[<<7>>, -1])
                  \cup {Lit_1e_6, FDec[<<5>>, -1], FDec[<<2>>, 0]}

Returned(fn, args, ret) ==
    /\ call' = [fn |-> fn, args |-> args, ret |-> ret]
    /\ UNCHANGED <<widgets, script, edits>>

Call_to_si_flow ==
    /\ call.fn = "none"
    /\ \E value \in Grid, unit \in DOMAIN FLOW_UNITS :
           Returned("to_si_flow", <<value, unit>>, to_si_flow(value, unit))

Call_to_si_head ==
    /\ call.fn = "none"
    /\ \E value \in Grid, unit \in DOMAIN HEAD_UNITS :
           Returned("to_si_head", <<value, unit>>, to_si_head(value, unit))

Call_to_fraction ==
    /\ call.fn = "none"
    /\ \E value \in EffArgs, unit \in DOMAIN EFF_UNITS :
           Returned("to_fraction", <<value, unit>>, to_fraction(value, unit))

Call_sg_to_density ==
    /\ call.fn = "none"
    /\ \E sg \in SgArgs :
           Returned("sg_to_density", <<sg>>, sg_to_density(sg))

Call_hydraulic_power_kw ==
    /\ call.fn = "none"
    /\ \E a \in PowerArgs :
           Returned("hydraulic_power_kw", <<a.rho, a.g, a.Q, a.H>>,
                    hydraulic_power_kw(a.rho, a.g, a.Q, a.H))

Call_shaft_power_kw ==
    /\ call.fn = "none"
    /\ \E P_h_kw \in ShaftPowers, eff_frac \in ShaftEffs :
           Returned("shaft_power_kw", <<P_h_kw, eff_frac>>,
                    shaft_power_kw(P_h_kw, eff_frac))

Call_kw_to_hp ==
    /\ call.fn = "none"
    /\ \E kw \in Grid :
           Returned("kw_to_hp", <<kw>>, kw_to_hp(kw))

\* The caller drops the returned value; the next call starts from the
\* same state, the helpers keeping none.
Discard ==
    /\ call.fn # "none"
    /\ call' = NoCall
    /\ UNCHANGED <<widgets, script, edits>>

NextFn ==
    \/ Call_to_si_flow
    \/ Call_to_si_head
    \/ Call_to_fraction
    \/ Call_sg_to_density
    \/ Call_hydraulic_power_kw
    \/ Call_shaft_power_kw
    \/ Call_kw_to_hp
    \/ Discard

SpecFn == Init /\ [][NextFn]_vars

\* ------------------------------------------------------------------------
\* Properties of the helpers.
\* ------------------------------------------------------------------------
NoOtherEffect ==
    /\ edits = 0
    /\ widgets = DefaultWidgets
    /\ script = RunScript(DefaultWidgets)

\* a <= b for two values as st.metric shows them (f"{x:,.3f}").
DisplayedLe(a, b) ==
    /\ a.k # "nan" /\ b.k # "nan"
    /\ a.s = 0 /\ b.s = 0
    /\ \/ b.k = "inf"
       \/ a.k = "fin" /\ b.k = "fin" /\ BCmp[a.n, b.n] <= 0

\* C3: for every value, negative, 0 and above 1000 % included, and both
\* units, to_fraction returns v with 1e-6 <= v <= 0.999999: value * factor
\* itself when that lies in the interval, 1e-6 when it is below, 0.999999
\* when it is above (factor 0.01 for '%', 1.0 for 'fraction').
C3_ToFractionClamps ==
    call.fn = "to_fraction" =>
        LET value == call.args[1]
            factor == IF call.args[2] = "%" THEN FDec[<<1>>, -2]
                      ELSE FDec[<<1>>, 0]
            product == FMul[value, factor]
            lo == FDec[<<1>>, -6]
            hi == FDec[<<9, 9, 9, 9, 9, 9>>, -6]
        IN  /\ FLe[lo, call.ret] /\ FLe[call.ret, hi]
            /\ FLe[lo, product] /\ FLe[product, hi] => call.ret = product
            /\ FLt[product, lo] => call.ret = lo
            /\ FLt[hi, product] => call.ret = hi

C3_Above1000Percent ==
    /\ call.fn = "to_fraction"
    /\ call.args[2] = "%"
    /\ FLt[FDec[<<1, 0, 0, 0>>, 0], call.args[1]]
    /\ call.ret = FDec[<<9, 9, 9, 9, 9, 9>>, -6]

C6_ZeroWheneverAFactorIsZero ==
    call.fn = "hydraulic_power_kw" =>
        LET rho == call.args[1]
            g == call.args[2]
            Q == call.args[3]
            H == call.args[4]
        IN  /\ call.ret
                   = FDiv[FMul[FMul[FMul[rho, g], Q], H], FDec[<<1, 0, 0, 0>>, 0]]
            /\ FLe[Zero, call.ret]
            /\ IsZero(rho) \/ IsZero(Q) \/ IsZero(H) => call.ret = Zero

\* What hydraulic_power_kw does on every non-negative argument list, for
\* comparison with C6: the result is (rho*g*Q*H)/1000 as the floats give
\* it, >= 0 or not a number; it is 0 when rho, Q or H is 0 and the
\* products rho*g and rho*g*Q formed on the way are finite, and not a
\* number exactly when such a product has overflowed and a later factor
\* is 0.
HydraulicPowerOnOverflow ==
    call.fn = "hydraulic_power_kw" =>
        LET rho == call.args[1]
            g == call.args[2]
            Q == call.args[3]
            H == call.args[4]
            rho_g == FMul[rho, g]
            rho_g_Q == FMul[rho_g, Q]
        IN  /\ call.ret = FDiv[FMul[rho_g_Q, H], FDec[<<1, 0, 0, 0>>, 0]]
            /\ ~IsNaN(call.ret) => FLe[Zero, call.ret]
            /\ /\ IsZero(rho) \/ IsZero(Q) \/ IsZero(H)
               /\ IsFinite(rho_g) /\ IsFinite(rho_g_Q)
               => call.ret = Zero
            /\ IsNaN(call.ret) <=>
                   \/ rho_g.k = "inf" /\ (IsZero(Q) \/ IsZero(H))
                   \/ rho_g_Q.k = "inf" /\ IsZero(H)

\* hydraulic_power_kw(1000.0, 1e200, 1e200, 0.0) is nan.
C6_ZeroHeadAfterOverflow ==
    /\ call.fn = "hydraulic_power_kw"
    /\ call.args = <<Lit_1000, Huge, Huge, Zero>>
    /\ IsNaN(call.ret)

\* C7 as stated: to_si_flow multiplies the value by a constant per unit,
\* 0.001 for L/s, 0.0030785411784/60 for US gpm, 0.028316846592 for ft3/s
\* and 1 for m3/s; it validates nothing and changes nothing.
C7_FactorsAsStated ==
    call.fn = "to_si_flow" =>
        LET value == call.args[1]
            unit == call.args[2]
        IN  /\ call.ret = FMul[value, to_si_flow(Lit_1, unit)]
            /\ unit = "m3/s" => call.ret = value
            /\ unit = "L/s" => call.ret = FMul[value, FDec[<<1>>, -3]]
            /\ unit = "gpm (US)" =>
                   call.ret
                       = FMul[value,
                              FDiv[FDec[<<3, 0, 7, 8, 5, 4, 1, 1, 7, 8, 4>>, -13],
                                   FDec[<<6, 0>>, 0]]]
            /\ unit = "ft3/s" =>
                   call.ret
                       = FMul[value, FDec[<<2, 8, 3, 1, 6, 8, 4, 6, 5, 9, 2>>, -12]]
            /\ NoOtherEffect

\* C7 amended: to_si_flow multiplies the value by a constant per unit,
\* 0.001 for L/s, 0.003785411784/60 for US gpm, 0.028316846592 for ft3/s
\* and 1 for m3/s; it validates nothing and changes nothing.
C7_Factors ==
    call.fn = "to_si_flow" =>
        LET value == call.args[1]
            unit == call.args[2]
        IN  /\ call.ret = FMul[value, to_si_flow(Lit_1, unit)]
            /\ unit = "m3/s" => call.ret = value
            /\ unit = "L/s" => call.ret = FMul[value, FDec[<<1>>, -3]]
            /\ unit = "gpm (US)" =>
                   call.ret
                       = FMul[value,
                              FDiv[FDec[<<3, 7, 8, 5, 4, 1, 1, 7, 8, 4>>, -12],
                                   FDec[<<6, 0>>, 0]]]
            /\ unit = "ft3/s" =>
                   call.ret
                       = FMul[value, FDec[<<2, 8, 3, 1, 6, 8, 4, 6, 5, 9, 2>>, -12]]
            /\ NoOtherEffect

C7_HundredGallons ==
    /\ call.fn = "to_si_flow"
    /\ call.args = <<FDec[<<1, 0, 0>>, 0], "gpm (US)">>
    /\ call.ret = FDec[<<6, 3, 0, 9, 0, 1, 9, 6, 4>>, -11]

\* C9: sg_to_density(sg) is max(1e-6, sg) * 1000: exactly 1e-3 for every
\* sg <= 1e-6 (0 and -5 among them), sg * 1000 for every sg > 1e-6, and
\* always strictly positive.
C9_DensityFromSG ==
    call.fn = "sg_to_density" =>
        LET sg == call.args[1]
            floor == FDec[<<1>>, -6]
            water == FDec[<<1, 0, 0, 0>>, 0]
        IN  /\ call.ret = FMul[FMax[floor, sg], water]
            /\ FLe[sg, floor] => call.ret = FDec[<<1>>, -3]
            /\ FLt[floor, sg] => call.ret = FMul[sg, water]
            /\ FLt[Zero, call.ret]

C9_MinusFive ==
    /\ call.fn = "sg_to_density"
    /\ call.args = <<FOfInt[-5, 0]>>
    /\ call.ret = FDec[<<1>>, -3]

====
